---- MODULE Spec2Model ----
(***************************************************************************)
(* cf-drain-cli, internal/command/create_drain.go: the create-drain        *)
(* command.  CreateDrain parses its arguments, validates them, annotates   *)
(* the drain URL with the drain type and runs one of two provisioning      *)
(* strategies against the injected plugin.CliConnection, Downloader,       *)
(* passwordReader and Logger.                                              *)
(*                                                                         *)
(* Strings are sequences of tokens.  A token is one character ("=", "&",   *)
(* "%", "+", " ", "x", "?", ":") or a run of characters that no operation  *)
(* of the program splits ("drain-type", "cf-drain-", "api.", ...).         *)
(* Concatenation is \o, the empty string is << >>.                         *)
(*                                                                         *)
(* One invocation of CreateDrain is one behaviour.  pc is the position of  *)
(* the invocation; an action is one call on a collaborator together with   *)
(* the code that runs up to the next call.  Logger.Fatalf ends the         *)
(* invocation (log.Fatalf exits, the test's stub panics).                  *)
(***************************************************************************)
EXTENDS Integers, Sequences, FiniteSets, TLC

VARIABLES
    flagErr,        \* the error of parser.ParseArgs, Nil when it has none
    adapterTypeFlag,\* the values of --adapter-type on the command line: none or one
    apiEndpoint,    \* the API endpoint of the session behind the CliConnection
    args,           \* the positional arguments parser.ParseArgs returns
    opts,           \* createDrainOpts
    pc,             \* position of the invocation
    trace,          \* every call made on a collaborator, in order, with its error
    fatalfMessage,  \* the message handed to Logger.Fatalf
    u,              \* the *url.URL of CreateDrain
    serviceName,    \* the value of opts.serviceName() handed to the strategy
    loc             \* the locals of pushSyslogForwarder

vars == <<flagErr, adapterTypeFlag, apiEndpoint, args, opts, pc, trace, fatalfMessage, u, serviceName, loc>>

-----------------------------------------------------------------------------
(* Bounds *)

\* the longest raw query of a drain URL, in tokens
MaxQueryLen == 3
\* the most positional arguments
MaxArgs == 3
\* the number of distinct values the random source can produce
NumRand == 2
\* the number of distinct error messages a collaborator can fail with
NumErrs == 2

-----------------------------------------------------------------------------
(* Strings *)

\* the index of the first occurrence of token t in s, 0 when there is none
IndexOf(s, t) ==
    IF \E i \in 1..Len(s) : s[i] = t
    THEN CHOOSE i \in 1..Len(s) : s[i] = t /\ \A j \in 1..(i - 1) : s[j] # t
    ELSE 0

\* strings.Split(s, sep)
RECURSIVE Split(_, _)
Split(s, sep) ==
    LET i == IndexOf(s, sep)
    IN  IF i = 0 THEN <<s>>
        ELSE <<SubSeq(s, 1, i - 1)>> \o Split(SubSeq(s, i + 1, Len(s)), sep)

\* byte order of the first byte of a token
Rank(t) ==
    CASE t = " " -> 32
      [] t = "%" -> 37
      [] t = "%3D" -> 37
      [] t = "&" -> 38
      [] t = "+" -> 43
      [] t = "=" -> 61
      [] t = "drain-type" -> 100
      [] t = "x" -> 120
      [] OTHER -> 128

\* s < t in the byte order of Go strings
RECURSIVE Less(_, _)
Less(s, t) ==
    IF t = << >> THEN FALSE
    ELSE IF s = << >> THEN TRUE
    ELSE IF Head(s) = Head(t) THEN Less(Tail(s), Tail(t))
    ELSE Rank(Head(s)) < Rank(Head(t))

\* the strings of S in ascending order
RECURSIVE SortStrings(_)
SortStrings(S) ==
    IF S = {} THEN << >>
    ELSE LET m == CHOOSE a \in S : \A b \in S \ {a} : Less(a, b)
         IN  <<m>> \o SortStrings(S \ {m})

\* all strings over alphabet A of length at most n
StringsUpTo(A, n) == UNION {[1..k -> A] : k \in 0..n}

Str(t) == <<t>>

-----------------------------------------------------------------------------
(* net/url as CreateDrain uses it *)

\* url.QueryUnescape: "+" is a space, "%3D" is "=", a "%" that no two hex
\* digits follow is an error
RECURSIVE QueryUnescape(_)
QueryUnescape(s) ==
    IF s = << >> THEN [ok |-> TRUE, s |-> << >>]
    ELSE LET rest == QueryUnescape(Tail(s))
             h == Head(s)
         IN  IF h = "%" \/ ~rest.ok THEN [ok |-> FALSE, s |-> << >>]
             ELSE [ok |-> TRUE,
                   s |-> <<(CASE h = "+" -> " " [] h = "%3D" -> "=" [] OTHER -> h)>> \o rest.s]

\* url.QueryEscape
RECURSIVE QueryEscape(_)
QueryEscape(s) ==
    IF s = << >> THEN << >>
    ELSE <<(CASE Head(s) = " " -> "+" [] Head(s) = "=" -> "%3D" [] OTHER -> Head(s))>>
         \o QueryEscape(Tail(s))

\* the key/value pairs url.ParseQuery keeps, in the order of the query: a
\* pair is cut at its first "=", an empty pair and a pair whose key or value
\* does not unescape are skipped (Query() drops the error)
RECURSIVE PairsOf(_)
PairsOf(segs) ==
    IF segs = << >> THEN << >>
    ELSE LET seg == Head(segs)
             i == IndexOf(seg, "=")
             k == QueryUnescape(IF i = 0 THEN seg ELSE SubSeq(seg, 1, i - 1))
             v == QueryUnescape(IF i = 0 THEN << >> ELSE SubSeq(seg, i + 1, Len(seg)))
         IN  IF seg = << >> \/ ~k.ok \/ ~v.ok THEN PairsOf(Tail(segs))
             ELSE <<[key |-> k.s, value |-> v.s]>> \o PairsOf(Tail(segs))

ParsePairs(rawQuery) == PairsOf(Split(rawQuery, "&"))

\* the values of key k among pairs, in order
RECURSIVE ValuesOf(_, _)
ValuesOf(pairs, k) ==
    IF pairs = << >> THEN << >>
    ELSE (IF Head(pairs).key = k THEN <<Head(pairs).value>> ELSE << >>)
         \o ValuesOf(Tail(pairs), k)

\* (*URL).Query(): url.Values, a map from each key to its values in order
Query(rawQuery) ==
    LET pairs == ParsePairs(rawQuery)
    IN  [k \in {pairs[i].key : i \in 1..Len(pairs)} |-> ValuesOf(pairs, k)]

\* Values.Set
ValuesSet(v, key, value) ==
    [k \in DOMAIN v \cup {key} |-> IF k = key THEN <<value>> ELSE v[k]]

\* "k=v1&k=v2" for one key
RECURSIVE EncodeKey(_, _)
EncodeKey(k, vs) ==
    IF vs = << >> THEN << >>
    ELSE QueryEscape(k) \o <<"=">> \o QueryEscape(Head(vs))
         \o (IF Tail(vs) = << >> THEN << >> ELSE <<"&">> \o EncodeKey(k, Tail(vs)))

RECURSIVE EncodeKeys(_, _)
EncodeKeys(v, keys) ==
    IF keys = << >> THEN << >>
    ELSE LET here == EncodeKey(Head(keys), v[Head(keys)])
             rest == EncodeKeys(v, Tail(keys))
         IN  IF here = << >> THEN rest
             ELSE IF rest = << >> THEN here
             ELSE here \o <<"&">> \o rest

\* Values.Encode: sorted by key
ValuesEncode(v) == EncodeKeys(v, SortStrings(DOMAIN v))

\* url.Parse on the drain URLs of the model: a URL that starts with ":" has
\* no scheme; the query is what follows the first "?"
ParseFails(raw) == raw # << >> /\ Head(raw) = ":"

ParseError(raw) == <<"parse ">> \o raw \o <<": missing protocol scheme">>

Parse(raw) ==
    LET i == IndexOf(raw, "?")
    IN  IF i = 0 THEN [base |-> raw, RawQuery |-> << >>, ForceQuery |-> FALSE]
        ELSE [base |-> SubSeq(raw, 1, i - 1),
              RawQuery |-> SubSeq(raw, i + 1, Len(raw)),
              ForceQuery |-> (i = Len(raw))]

\* (*URL).String
URLString(url) ==
    url.base \o (IF url.ForceQuery \/ url.RawQuery # << >>
                 THEN <<"?">> \o url.RawQuery ELSE << >>)

\* validDrainType without its default case
validDrainType_Permissive(drainType) == drainType # << >>

\* validDrainType
validDrainType(drainType) == drainType \in {<<"logs">>, <<"metrics">>, <<"all">>}

\* Annotate with the drain type appended to the raw query
Annotate_Append(url, drainType) ==
    IF drainType # << >>
    THEN [url EXCEPT !.RawQuery =
              (IF url.RawQuery = << >> THEN << >> ELSE url.RawQuery \o <<"&">>)
              \o <<"drain-type", "=">> \o drainType]
    ELSE url

\* CreateDrain, the annotation of the URL with the drain type
Annotate(url, drainType) ==
    IF drainType # << >>
    THEN [url EXCEPT !.RawQuery = ValuesEncode(ValuesSet(Query(url.RawQuery), <<"drain-type">>, drainType))]
    ELSE url

-----------------------------------------------------------------------------
(* path, strings and fmt as the strategies use them *)

\* the index of the last occurrence of token t in s, 0 when there is none
LastIndexOf(s, t) ==
    IF \E i \in 1..Len(s) : s[i] = t
    THEN CHOOSE i \in 1..Len(s) : s[i] = t /\ \A j \in (i + 1)..Len(s) : s[j] # t
    ELSE 0

\* path.Dir of a clean path: what precedes the last "/"
Dir(p) ==
    LET i == LastIndexOf(p, "/")
    IN  IF i = 0 THEN <<".">>
        ELSE IF i = 1 THEN <<"/">>
        ELSE SubSeq(p, 1, i - 1)

\* ReplaceFirst with every occurrence replaced: strings.Replace(s, old, new, -1)
ReplaceFirst_All(s, old, new) == [i \in 1..Len(s) |-> IF s[i] = old THEN new ELSE s[i]]

\* strings.Replace(s, old, new, 1) for a one-token old
ReplaceFirst(s, old, new) ==
    LET i == IndexOf(s, old)
    IN  IF i = 0 THEN s
        ELSE SubSeq(s, 1, i - 1) \o <<new>> \o SubSeq(s, i + 1, Len(s))

\* fmt's %q of a name without characters to escape
Quote(s) == <<"\"">> \o s \o <<"\"">>

\* fmt's %t
FormatBool(b) == IF b THEN <<"true">> ELSE <<"false">>

-----------------------------------------------------------------------------
(* The collaborators *)

\* an error value: nil, or an error with its message
Nil == [failed |-> FALSE, msg |-> << >>]

Err(m) == [failed |-> TRUE, msg |-> m]

\* what a call on plugin.CliConnection can return as its error
Errors == {Err(<<"error-" \o ToString(i)>>) : i \in 1..NumErrs}

Outcomes == {Nil} \cup Errors

\* what the random source (uuid.NewV4, crypto/rand.Read) can return
RandFailure == [failed |-> TRUE, value |-> << >>, msg |-> <<"rand: read failed">>]

RandResults ==
    {[failed |-> FALSE, value |-> <<"rnd-" \o ToString(i)>>, msg |-> << >>] : i \in 1..NumRand}
    \cup {RandFailure}

\* what the passwordReader can return: (bytes, error)
PasswordResults ==
    {[bytes |-> b, err |-> e] : b \in {<< >>, <<"some-password">>}, e \in Outcomes}

\* the session and the platform behind the plugin.CliConnection
AppGuid == <<"application-guid">>

ServiceGuid == <<"service-instance-guid">>

OrgName == <<"org-name">>

SpaceName == <<"space-name">>

\* the endpoints a session can be targeted at: the host alone, with a
\* scheme, with "api." twice, without "api."
ApiEndpoints ==
    {<<"api.", "example.com">>,
     <<"https://", "api.", "example.com">>,
     <<"api.", "api.", "example.com">>,
     <<"example.com">>}

\* what Downloader.Download returns
DownloadPath == <<"/downloaded/temp/dir", "/", "syslog_forwarder">>

-----------------------------------------------------------------------------
(* The arguments *)

TargetName == <<"app-name">>

\* the alphabet of raw queries
QueryTokens == {"x", "drain-type", "=", "&", "%", "+"}

RawQueries == StringsUpTo(QueryTokens, MaxQueryLen)

DrainURLs ==
    {<<":", "//://blablabla">>, <<"syslog://a.com">>}
    \cup {<<"syslog://a.com", "?">> \o q : q \in RawQueries}

AdapterTypes == {<<"service">>, <<"application">>, <<"foo">>}

\* --adapter-type on the command line: absent, given with one of the values,
\* given with the empty value
AdapterTypeFlags == {<< >>} \cup {<<t>> : t \in AdapterTypes \cup {<< >>}}

\* opts.AdapterType once parser.ParseArgs has run over
\*     opts := createDrainOpts{AdapterType: "service"}
AdapterTypeOf(flag) == IF flag = << >> THEN <<"service">> ELSE flag[1]

DrainNames == {<< >>, <<"my-drain">>}

DrainTypes == {<< >>, <<"logs">>, <<"metrics">>, <<"all">>, <<"garbage">>}

Usernames == {<< >>, <<"my-user">>}

\* the positional arguments: the target, the drain URL, and what follows
Positionals(url, n) ==
    [i \in 1..n |-> IF i = 1 THEN TargetName ELSE IF i = 2 THEN url ELSE <<"extra">>]

ZeroURL == [base |-> << >>, RawQuery |-> << >>, ForceQuery |-> FALSE]

ZeroLocals ==
    [sourceID |-> << >>, org |-> << >>, space |-> << >>, apiEndpoint |-> << >>,
     username |-> << >>, password |-> << >>, path |-> << >>,
     skipCertVerify |-> FALSE, groupName |-> << >>, env |-> 0,
     bytePassword |-> << >>,
     newPassword |-> << >>, userOrg |-> << >>, userSpace |-> << >>]

\* the drain URLs of the specification of the whole command: no scheme, no
\* query, a query, a query that already names the drain type
SampleURLs ==
    {<<":", "//://blablabla">>,
     <<"syslog://a.com">>,
     <<"syslog://a.com", "?", "x", "=", "x">>,
     <<"syslog://a.com", "?", "drain-type", "=", "x">>}

\* the state as CreateDrain is entered: parser.ParseArgs has filled the
\* flags of createDrainOpts; Password has no flag and stays empty
InitWith(flagErrs, urls, counts, adapters, names, types, usernames, endpoints) ==
    /\ flagErr \in flagErrs
    /\ adapterTypeFlag \in adapters
    /\ apiEndpoint \in endpoints
    /\ args \in {Positionals(url, n) : url \in urls, n \in counts}
    /\ opts \in [AppOrServiceName : {<< >>}, AdapterType : {AdapterTypeOf(adapterTypeFlag)},
                 DrainName : names, DrainType : types,
                 DrainURL : {<< >>}, Username : usernames, Password : {<< >>}]
    /\ pc = "CreateDrain"
    /\ trace = << >>
    /\ fatalfMessage = << >>
    /\ u = ZeroURL
    /\ serviceName = << >>
    /\ loc = ZeroLocals

Init ==
    InitWith({Nil, Err(<<"unknown flag `bogus'">>)}, SampleURLs, 0..MaxArgs,
             AdapterTypeFlags, DrainNames, DrainTypes, Usernames, ApiEndpoints)

\* the invocations that pass a name and a user name, with every drain URL
InitURL ==
    InitWith({Nil}, DrainURLs, {2}, {<<Str("service")>>, <<Str("application")>>},
             {<<"my-drain">>}, DrainTypes, {<<"my-user">>}, {<<"api.", "example.com">>})

-----------------------------------------------------------------------------
(* Helpers of the actions *)

\* one call on a collaborator, as trace records it
Event(fn, argv, err) == [fn |-> fn, argv |-> argv, err |-> err]

\* log.Fatalf(format, ...) on the injected Logger: the invocation ends
Fatalf(msg) ==
    /\ pc' = "fatal"
    /\ fatalfMessage' = msg

\* CallOrFatal with the error dropped from the diagnostic
CallOrFatal_FixedMessage(fn, argv, res, nextpc, nextloc) ==
    /\ trace' = Append(trace, Event(fn, argv, res))
    /\ IF res.failed
       THEN Fatalf(<<"command failed">>) /\ loc' = loc
       ELSE pc' = nextpc /\ fatalfMessage' = fatalfMessage /\ loc' = nextloc
    /\ UNCHANGED <<flagErr, adapterTypeFlag, apiEndpoint, args, opts, u, serviceName>>

\* the idiom of every call on the CliConnection:
\*     _, err = cli.X(...); if err != nil { log.Fatalf("%s", err) }
\* and, when there is no error, the code up to the next call (nextpc, nextloc)
CallOrFatal(fn, argv, res, nextpc, nextloc) ==
    /\ trace' = Append(trace, Event(fn, argv, res))
    /\ IF res.failed
       THEN Fatalf(res.msg) /\ loc' = loc
       ELSE pc' = nextpc /\ fatalfMessage' = fatalfMessage /\ loc' = nextloc
    /\ UNCHANGED <<flagErr, adapterTypeFlag, apiEndpoint, args, opts, u, serviceName>>

\* createDrainOpts.serviceName with what uuid.NewV4 returned
GeneratedName(r) == <<"cf-drain-">> \o r.value

\* pushSyslogForwarder: where the code goes once username is set
\*     if username != "" && password == "" { ... p(0) ... }
AfterCredentials(username, password) ==
    IF username # << >> /\ password = << >> THEN "app.ReadPassword" ELSE "app.Download"

-----------------------------------------------------------------------------
(* CreateDrain up to the strategy *)

\* Dispatch with opts.serviceName() evaluated before the switch
Dispatch_NameFirst(o, r) ==
    IF o.DrainName = << >> /\ r.failed
    THEN /\ pc' = "exit"
         /\ UNCHANGED <<fatalfMessage, serviceName, loc>>
    ELSE /\ serviceName' = (IF o.DrainName # << >> THEN o.DrainName ELSE GeneratedName(r))
         /\ IF o.AdapterType \notin {<<"service">>, <<"application">>}
            THEN /\ Fatalf(<<"unsupported adapter type, must be 'service' or 'application'">>)
                 /\ UNCHANGED loc
            ELSE /\ pc' = (IF o.AdapterType = <<"service">> THEN "svc.GetApp" ELSE "app.GetApp")
                 /\ loc' = [loc EXCEPT !.username = o.Username, !.password = o.Password]
                 /\ UNCHANGED fatalfMessage

\* the switch on opts.AdapterType with the arguments of the strategy
\* evaluated: opts.serviceName() runs before the strategy is entered, and
\* fails through the standard log package, not through the Logger
Dispatch(o, r) ==
    IF o.AdapterType \notin {<<"service">>, <<"application">>}
    THEN /\ Fatalf(<<"unsupported adapter type, must be 'service' or 'application'">>)
         /\ UNCHANGED <<serviceName, loc>>
    ELSE IF o.DrainName = << >> /\ r.failed
    THEN /\ pc' = "exit"
         /\ UNCHANGED <<fatalfMessage, serviceName, loc>>
    ELSE /\ serviceName' = (IF o.DrainName # << >> THEN o.DrainName ELSE GeneratedName(r))
         /\ pc' = (IF o.AdapterType = <<"service">> THEN "svc.GetApp" ELSE "app.GetApp")
         /\ loc' = [loc EXCEPT !.username = o.Username, !.password = o.Password]
         /\ UNCHANGED fatalfMessage

\* CreateDrain with the drain type checked before the URL is parsed
CreateDrain_TypeBeforeURL ==
    /\ pc = "CreateDrain"
    /\ UNCHANGED <<flagErr, adapterTypeFlag, apiEndpoint, args, trace>>
    /\ IF flagErr.failed
       THEN Fatalf(flagErr.msg) /\ UNCHANGED <<opts, u, serviceName, loc>>
       ELSE IF Len(args) # 2
       THEN /\ Fatalf(<<"Invalid arguments, expected 2, got ", ToString(Len(args)), ".">>)
            /\ UNCHANGED <<opts, u, serviceName, loc>>
       ELSE LET o == [opts EXCEPT !.AppOrServiceName = args[1], !.DrainURL = args[2]]
            IN  /\ opts' = o
                /\ IF o.DrainType # << >> /\ ~validDrainType(o.DrainType)
                   THEN /\ Fatalf(<<"Invalid type: ">> \o o.DrainType)
                        /\ UNCHANGED <<u, serviceName, loc>>
                   ELSE IF ParseFails(o.DrainURL)
                   THEN /\ Fatalf(<<"Invalid syslog drain URL: ">> \o ParseError(o.DrainURL))
                        /\ UNCHANGED <<u, serviceName, loc>>
                   ELSE /\ u' = Annotate(Parse(o.DrainURL), o.DrainType)
                        /\ \E r \in RandResults : Dispatch(o, r)

CreateDrain ==
    /\ pc = "CreateDrain"
    /\ UNCHANGED <<flagErr, adapterTypeFlag, apiEndpoint, args, trace>>
    /\ IF flagErr.failed
       THEN Fatalf(flagErr.msg) /\ UNCHANGED <<opts, u, serviceName, loc>>
       ELSE IF Len(args) # 2
       THEN /\ Fatalf(<<"Invalid arguments, expected 2, got ", ToString(Len(args)), ".">>)
            /\ UNCHANGED <<opts, u, serviceName, loc>>
       ELSE LET o == [opts EXCEPT !.AppOrServiceName = args[1], !.DrainURL = args[2]]
            IN  /\ opts' = o
                /\ IF ParseFails(o.DrainURL)
                   THEN /\ Fatalf(<<"Invalid syslog drain URL: ">> \o ParseError(o.DrainURL))
                        /\ UNCHANGED <<u, serviceName, loc>>
                   ELSE IF o.DrainType # << >> /\ ~validDrainType(o.DrainType)
                   THEN /\ Fatalf(<<"Invalid type: ">> \o o.DrainType)
                        /\ u' = Parse(o.DrainURL)
                        /\ UNCHANGED <<serviceName, loc>>
                   ELSE /\ u' = Annotate(Parse(o.DrainURL), o.DrainType)
                        /\ \E r \in RandResults : Dispatch(o, r)

-----------------------------------------------------------------------------
(* createAndBindService *)

ServiceCreateCommand ==
    <<Str("create-user-provided-service"), serviceName, <<"-l">>, URLString(u)>>

\* ServiceBindCommand with the arguments of bind-service exchanged
ServiceBindCommand_Swapped ==
    <<Str("bind-service"), serviceName, opts.AppOrServiceName>>

ServiceBindCommand ==
    <<Str("bind-service"), opts.AppOrServiceName, serviceName>>

\* ServiceGetApp with the error of the lookup ignored
ServiceGetApp_Unchecked ==
    /\ pc = "svc.GetApp"
    /\ \E res \in Outcomes :
          trace' = Append(trace, Event("GetApp", <<opts.AppOrServiceName>>, res))
    /\ pc' = "svc.create"
    /\ UNCHANGED <<flagErr, adapterTypeFlag, apiEndpoint, args, opts, fatalfMessage, u, serviceName, loc>>

ServiceGetApp ==
    /\ pc = "svc.GetApp"
    /\ \E res \in Outcomes :
          CallOrFatal("GetApp", <<opts.AppOrServiceName>>, res, "svc.create", loc)

ServiceCreate ==
    /\ pc = "svc.create"
    /\ \E res \in Outcomes :
          CallOrFatal("CliCommand", ServiceCreateCommand, res, "svc.bind", loc)

\* ServiceBind that deletes the service instance when the binding fails
ServiceBind_DeleteOnFailure ==
    /\ pc = "svc.bind"
    /\ \E res \in Outcomes :
          IF res.failed
          THEN /\ trace' = trace \o <<Event("CliCommand", ServiceBindCommand, res),
                                      Event("CliCommand",
                                            <<Str("delete-service"), serviceName, Str("-f")>>,
                                            Nil)>>
               /\ Fatalf(res.msg)
               /\ UNCHANGED <<flagErr, adapterTypeFlag, apiEndpoint, args, opts, u, serviceName, loc>>
          ELSE CallOrFatal("CliCommand", ServiceBindCommand, res, "done", loc)

ServiceBind ==
    /\ pc = "svc.bind"
    /\ \E res \in Outcomes :
          CallOrFatal("CliCommand", ServiceBindCommand, res, "done", loc)

-----------------------------------------------------------------------------
(* pushSyslogForwarder *)

\* AppGetApp with the service lookup made whatever the application lookup
\* returned
AppGetApp_AlwaysService ==
    /\ pc = "app.GetApp"
    /\ \E res \in Outcomes :
          /\ trace' = Append(trace, Event("GetApp", <<opts.AppOrServiceName>>, res))
          /\ pc' = "app.GetService"
          /\ loc' = (IF res.failed THEN loc ELSE [loc EXCEPT !.sourceID = AppGuid])
    /\ UNCHANGED <<flagErr, adapterTypeFlag, apiEndpoint, args, opts, fatalfMessage, u, serviceName>>

\* sourceID: the application lookup; when it fails the service lookup follows
AppGetApp ==
    /\ pc = "app.GetApp"
    /\ \E res \in Outcomes :
          /\ trace' = Append(trace, Event("GetApp", <<opts.AppOrServiceName>>, res))
          /\ IF res.failed
             THEN pc' = "app.GetService" /\ loc' = loc
             ELSE pc' = "app.GetCurrentOrg" /\ loc' = [loc EXCEPT !.sourceID = AppGuid]
    /\ UNCHANGED <<flagErr, adapterTypeFlag, apiEndpoint, args, opts, fatalfMessage, u, serviceName>>

\* sourceID: the service lookup; pushSyslogForwarder reports its failure as
\* an unknown application or service
AppGetService ==
    /\ pc = "app.GetService"
    /\ \E res \in Outcomes :
          /\ trace' = Append(trace, Event("GetService", <<opts.AppOrServiceName>>, res))
          /\ IF res.failed
             THEN /\ Fatalf(<<"unknown application or service ">> \o Quote(opts.AppOrServiceName))
                  /\ loc' = loc
             ELSE /\ pc' = "app.GetCurrentOrg"
                  /\ fatalfMessage' = fatalfMessage
                  /\ loc' = [loc EXCEPT !.sourceID = ServiceGuid]
    /\ UNCHANGED <<flagErr, adapterTypeFlag, apiEndpoint, args, opts, u, serviceName>>

AppGetCurrentOrg ==
    /\ pc = "app.GetCurrentOrg"
    /\ \E res \in Outcomes :
          CallOrFatal("GetCurrentOrg", << >>, res, "app.GetCurrentSpace",
                      [loc EXCEPT !.org = OrgName])

AppGetCurrentSpace ==
    /\ pc = "app.GetCurrentSpace"
    /\ \E res \in Outcomes :
          CallOrFatal("GetCurrentSpace", << >>, res, "app.ApiEndpoint",
                      [loc EXCEPT !.space = SpaceName])

\* cli.ApiEndpoint, then the choice of the credentials
AppApiEndpoint ==
    /\ pc = "app.ApiEndpoint"
    /\ \E res \in Outcomes :
          IF loc.username = << >>
          THEN CallOrFatal("ApiEndpoint", << >>, res, "createUser.create",
                           [loc EXCEPT !.apiEndpoint = apiEndpoint,
                                       !.username = <<"drain-">> \o loc.sourceID])
          ELSE CallOrFatal("ApiEndpoint", << >>, res,
                           AfterCredentials(loc.username, loc.password),
                           [loc EXCEPT !.apiEndpoint = apiEndpoint])

\* createUser: fmt.Sprintf("%x", sha256.Sum256(data)), 64 hex digits
HexDigest(data) == <<"sha256-hex-of-">> \o data

\* createUser: rand.Read, the password, then the create-user command
CreateUserCreate ==
    /\ pc = "createUser.create"
    /\ UNCHANGED <<flagErr, adapterTypeFlag, apiEndpoint, args, opts, u, serviceName>>
    /\ \E r \in RandResults, res \in Outcomes :
          IF r.failed
          THEN /\ Fatalf(r.msg)
               /\ UNCHANGED <<trace, loc>>
          ELSE /\ loc' = [loc EXCEPT !.newPassword = HexDigest(r.value)]
               /\ trace' = Append(trace, Event("CliCommand",
                                <<Str("create-user"), loc.username, HexDigest(r.value)>>, res))
               /\ IF res.failed
                  THEN Fatalf(res.msg)
                  ELSE pc' = "createUser.GetCurrentOrg" /\ fatalfMessage' = fatalfMessage

CreateUserGetCurrentOrg ==
    /\ pc = "createUser.GetCurrentOrg"
    /\ \E res \in Outcomes :
          CallOrFatal("GetCurrentOrg", << >>, res, "createUser.GetCurrentSpace",
                      [loc EXCEPT !.userOrg = OrgName])

CreateUserGetCurrentSpace ==
    /\ pc = "createUser.GetCurrentSpace"
    /\ \E res \in Outcomes :
          CallOrFatal("GetCurrentSpace", << >>, res, "createUser.SetSpaceRole",
                      [loc EXCEPT !.userSpace = SpaceName])

\* CreateUserSetSpaceRole with the password not handed back to the caller
CreateUserSetSpaceRole_NoReturn ==
    /\ pc = "createUser.SetSpaceRole"
    /\ \E res \in Outcomes :
          CallOrFatal("CliCommand",
                      <<Str("set-space-role"), loc.username, loc.userOrg, loc.userSpace,
                        Str("SpaceDeveloper")>>,
                      res, AfterCredentials(loc.username, loc.password), loc)

\* createUser: set-space-role, then the return of the password
CreateUserSetSpaceRole ==
    /\ pc = "createUser.SetSpaceRole"
    /\ \E res \in Outcomes :
          CallOrFatal("CliCommand",
                      <<Str("set-space-role"), loc.username, loc.userOrg, loc.userSpace,
                        Str("SpaceDeveloper")>>,
                      res, AfterCredentials(loc.username, loc.newPassword),
                      [loc EXCEPT !.password = loc.newPassword])

\* AppReadPassword without the check of a blank password
AppReadPassword_AcceptBlank ==
    /\ pc = "app.ReadPassword"
    /\ \E r \in PasswordResults :
          /\ trace' = Append(trace, Event("passwordReader", <<Str("0")>>, r.err))
          /\ IF r.err.failed
             THEN /\ Fatalf(r.err.msg)
                  /\ loc' = [loc EXCEPT !.bytePassword = r.bytes]
             ELSE /\ pc' = "app.Download"
                  /\ fatalfMessage' = fatalfMessage
                  /\ loc' = [loc EXCEPT !.bytePassword = r.bytes, !.password = r.bytes]
    /\ UNCHANGED <<flagErr, adapterTypeFlag, apiEndpoint, args, opts, u, serviceName>>

\* the prompt: p(0), its error, the blank password
AppReadPassword ==
    /\ pc = "app.ReadPassword"
    /\ \E r \in PasswordResults :
          /\ trace' = Append(trace, Event("passwordReader", <<Str("0")>>, r.err))
          /\ IF r.err.failed
             THEN /\ Fatalf(r.err.msg)
                  /\ loc' = [loc EXCEPT !.bytePassword = r.bytes]
             ELSE IF r.bytes = << >>
             THEN /\ Fatalf(<<"Password cannot be blank.">>)
                  /\ loc' = [loc EXCEPT !.bytePassword = r.bytes]
             ELSE /\ pc' = "app.Download"
                  /\ fatalfMessage' = fatalfMessage
                  /\ loc' = [loc EXCEPT !.bytePassword = r.bytes, !.password = r.bytes]
    /\ UNCHANGED <<flagErr, adapterTypeFlag, apiEndpoint, args, opts, u, serviceName>>

\* d.Download("syslog_forwarder"): the Downloader returns no error
AppDownload ==
    /\ pc = "app.Download"
    /\ trace' = Append(trace, Event("Download", <<Str("syslog_forwarder")>>, Nil))
    /\ pc' = "app.push"
    /\ loc' = [loc EXCEPT !.path = Dir(DownloadPath)]
    /\ UNCHANGED <<flagErr, adapterTypeFlag, apiEndpoint, args, opts, fatalfMessage, u, serviceName>>

PushCommand ==
    <<Str("push"), serviceName, Str("-p"), loc.path, Str("-b"), Str("binary_buildpack"),
      Str("-c"), Str("./syslog_forwarder"), Str("--no-start")>>

AppPush ==
    /\ pc = "app.push"
    /\ \E res \in Outcomes :
          CallOrFatal("CliCommand", PushCommand, res, "app.IsSSLDisabled", loc)

\* cli.IsSSLDisabled, then uuid.NewV4 for the group name
AppIsSSLDisabled ==
    /\ pc = "app.IsSSLDisabled"
    /\ \E res \in Outcomes, disabled \in BOOLEAN, r \in RandResults :
          IF ~res.failed /\ r.failed
          THEN /\ trace' = Append(trace, Event("IsSSLDisabled", << >>, res))
               /\ Fatalf(r.msg)
               /\ UNCHANGED <<flagErr, adapterTypeFlag, apiEndpoint, args, opts, u, serviceName, loc>>
          ELSE CallOrFatal("IsSSLDisabled", << >>, res, "app.setEnv",
                           [loc EXCEPT !.skipCertVerify = disabled,
                                       !.groupName = r.value,
                                       !.env = 1])

\* EnvCommands with DRAIN_SCOPE set first
EnvCommands_ScopeFirst(name, l, url) ==
    LET hostName == l.org \o <<".">> \o l.space \o <<".">> \o opts.AppOrServiceName
        uaaAddr == ReplaceFirst(l.apiEndpoint, "api.", "uaa.")
        logCacheAddr == ReplaceFirst(l.apiEndpoint, "api.", "log-cache.")
    IN  << <<Str("set-env"), name, Str("DRAIN_SCOPE"), Str("single")>>,
           <<Str("set-env"), name, Str("SOURCE_ID"), l.sourceID>>,
           <<Str("set-env"), name, Str("SOURCE_HOST_NAME"), hostName>>,
           <<Str("set-env"), name, Str("UAA_URL"), uaaAddr>>,
           <<Str("set-env"), name, Str("CLIENT_ID"), Str("cf")>>,
           <<Str("set-env"), name, Str("USERNAME"), l.username>>,
           <<Str("set-env"), name, Str("PASSWORD"), l.password>>,
           <<Str("set-env"), name, Str("LOG_CACHE_HTTP_ADDR"), logCacheAddr>>,
           <<Str("set-env"), name, Str("SYSLOG_URL"), URLString(url)>>,
           <<Str("set-env"), name, Str("SKIP_CERT_VERIFY"), FormatBool(l.skipCertVerify)>>,
           <<Str("set-env"), name, Str("GROUP_NAME"), l.groupName>> >>

\* envCommands
EnvCommands(name, l, url) ==
    LET hostName == l.org \o <<".">> \o l.space \o <<".">> \o opts.AppOrServiceName
        uaaAddr == ReplaceFirst(l.apiEndpoint, "api.", "uaa.")
        logCacheAddr == ReplaceFirst(l.apiEndpoint, "api.", "log-cache.")
    IN  << <<Str("set-env"), name, Str("SOURCE_ID"), l.sourceID>>,
           <<Str("set-env"), name, Str("SOURCE_HOST_NAME"), hostName>>,
           <<Str("set-env"), name, Str("UAA_URL"), uaaAddr>>,
           <<Str("set-env"), name, Str("CLIENT_ID"), Str("cf")>>,
           <<Str("set-env"), name, Str("USERNAME"), l.username>>,
           <<Str("set-env"), name, Str("PASSWORD"), l.password>>,
           <<Str("set-env"), name, Str("LOG_CACHE_HTTP_ADDR"), logCacheAddr>>,
           <<Str("set-env"), name, Str("SYSLOG_URL"), URLString(url)>>,
           <<Str("set-env"), name, Str("SKIP_CERT_VERIFY"), FormatBool(l.skipCertVerify)>>,
           <<Str("set-env"), name, Str("GROUP_NAME"), l.groupName>>,
           <<Str("set-env"), name, Str("DRAIN_SCOPE"), Str("single")>> >>

\* one turn of the loop over envCommands
AppSetEnv ==
    /\ pc = "app.setEnv"
    /\ LET cmds == EnvCommands(serviceName, loc, u)
       IN  \E res \in Outcomes :
              CallOrFatal("CliCommandWithoutTerminalOutput", cmds[loc.env], res,
                          IF loc.env = Len(cmds) THEN "app.start" ELSE "app.setEnv",
                          [loc EXCEPT !.env = loc.env + 1])

StartCommand == <<Str("start"), serviceName>>

AppStart ==
    /\ pc = "app.start"
    /\ \E res \in Outcomes :
          CallOrFatal("CliCommand", StartCommand, res, "done", loc)

-----------------------------------------------------------------------------

Next ==
    \/ CreateDrain
    \/ ServiceGetApp
    \/ ServiceCreate
    \/ ServiceBind
    \/ AppGetApp
    \/ AppGetService
    \/ AppGetCurrentOrg
    \/ AppGetCurrentSpace
    \/ AppApiEndpoint
    \/ CreateUserCreate
    \/ CreateUserGetCurrentOrg
    \/ CreateUserGetCurrentSpace
    \/ CreateUserSetSpaceRole
    \/ AppReadPassword
    \/ AppDownload
    \/ AppPush
    \/ AppIsSSLDisabled
    \/ AppSetEnv
    \/ AppStart

Spec == Init /\ [][Next]_vars

\* with a user name passed, createUser is never entered
NextURL ==
    \/ CreateDrain
    \/ ServiceGetApp
    \/ ServiceCreate
    \/ ServiceBind
    \/ AppGetApp
    \/ AppGetService
    \/ AppGetCurrentOrg
    \/ AppGetCurrentSpace
    \/ AppApiEndpoint
    \/ AppReadPassword
    \/ AppDownload
    \/ AppPush
    \/ AppIsSSLDisabled
    \/ AppSetEnv
    \/ AppStart

SpecURL == InitURL /\ [][NextURL]_vars

-----------------------------------------------------------------------------
(* Vocabulary of the properties *)

ExecutorFns ==
    {"GetApp", "GetService", "GetCurrentOrg", "GetCurrentSpace", "ApiEndpoint",
     "IsSSLDisabled", "CliCommand", "CliCommandWithoutTerminalOutput"}

IsExecutor(e) == e.fn \in ExecutorFns

\* the calls made on the command executor, in order
ExecutorCalls == SelectSeq(trace, IsExecutor)

\* e runs the platform command cmd ("push", "set-env", ...)
IsCommand(e, cmd) ==
    /\ e.fn \in {"CliCommand", "CliCommandWithoutTerminalOutput"}
    /\ e.argv[1] = <<cmd>>

\* e sets the environment variable var
IsSetEnv(e, var) == IsCommand(e, "set-env") /\ e.argv[3] = <<var>>

ServiceAdapter == opts.AdapterType = <<"service">>

ApplicationAdapter == opts.AdapterType = <<"application">>

\* the call without its outcome
CallOf(e) == [fn |-> e.fn, argv |-> e.argv]

\* s is a prefix of t
IsPrefix(s, t) == Len(s) <= Len(t) /\ \A i \in 1..Len(s) : s[i] = t[i]

\* the indices of seq whose element satisfies P
Where(seq, P(_)) == {i \in 1..Len(seq) : P(seq[i])}

-----------------------------------------------------------------------------
(* C1 *)

\* C1: on the service adapter path the calls are, in this order and nothing
\* else, the application lookup of the target, create-user-provided-service
\* <name> -l <url> and bind-service <target> <name>; a call is made only
\* when the one before it succeeded, and a successful invocation has made
\* exactly the three.
C1_ServiceAdapterSequence ==
    ServiceAdapter =>
        LET full == << [fn |-> "GetApp", argv |-> <<args[1]>>],
                       [fn |-> "CliCommand",
                        argv |-> <<Str("create-user-provided-service"), serviceName,
                                   Str("-l"), URLString(u)>>],
                       [fn |-> "CliCommand",
                        argv |-> <<Str("bind-service"), args[1], serviceName>>] >>
        IN  /\ Len(trace) <= 3
            /\ \A i \in 1..Len(trace) : CallOf(trace[i]) = full[i]
            /\ \A i \in 1..(Len(trace) - 1) : ~trace[i].err.failed
            /\ pc = "done" => Len(trace) = 3 /\ ~trace[3].err.failed

\* a successful invocation on the service adapter path
C1_Witness ==
    /\ ServiceAdapter
    /\ pc = "done"
    /\ Len(trace) = 3
    /\ IsCommand(trace[3], "bind-service")

-----------------------------------------------------------------------------
(* C2 *)

\* C2 as stated: every failed call on the command executor has aborted the
\* invocation with the error's message as the diagnostic.
C2_Original ==
    \A i \in 1..Len(trace) :
        IsExecutor(trace[i]) /\ trace[i].err.failed =>
            pc = "fatal" /\ fatalfMessage = trace[i].err.msg

\* C2, amended: a failed call on the command executor other than the two
\* source lookups of the application adapter has aborted the invocation with
\* the error's message as the diagnostic; on the application adapter path a
\* failed application lookup does not abort (the service lookup follows), and
\* a failed service lookup aborts with: unknown application or service "<name>".
C2_FailureAborts ==
    \A i \in 1..Len(trace) :
        IsExecutor(trace[i]) /\ trace[i].err.failed =>
            IF ApplicationAdapter /\ trace[i].fn = "GetApp"
            THEN /\ i = 1
                 /\ Len(trace) = 1 => pc = "app.GetService"
                 /\ Len(trace) > 1 => trace[2].fn = "GetService"
            ELSE IF trace[i].fn = "GetService"
            THEN /\ pc = "fatal"
                 /\ fatalfMessage = <<"unknown application or service ">> \o Quote(args[1])
            ELSE /\ pc = "fatal"
                 /\ fatalfMessage = trace[i].err.msg

\* an environment variable could not be set, and the invocation has aborted
\* with that error
C2_Witness ==
    /\ pc = "fatal"
    /\ trace # << >>
    /\ IsSetEnv(trace[Len(trace)], "PASSWORD")
    /\ trace[Len(trace)].err.failed
    /\ fatalfMessage = trace[Len(trace)].err.msg

-----------------------------------------------------------------------------
(* C3 *)

\* the calls on the command executor of an invocation in which every call
\* succeeds, but for the application lookup when appFound is FALSE
SuccessfulCalls(appFound) ==
    LET call(fn, argv) == [fn |-> fn, argv |-> argv]
        target == opts.AppOrServiceName
        envs == EnvCommands(serviceName, loc, u)
    IN  IF ServiceAdapter
        THEN <<call("GetApp", <<target>>),
               call("CliCommand", ServiceCreateCommand),
               call("CliCommand", ServiceBindCommand)>>
        ELSE IF ApplicationAdapter
        THEN <<call("GetApp", <<target>>)>>
             \o (IF appFound THEN << >> ELSE <<call("GetService", <<target>>)>>)
             \o <<call("GetCurrentOrg", << >>), call("GetCurrentSpace", << >>),
                  call("ApiEndpoint", << >>)>>
             \o (IF opts.Username = << >>
                 THEN <<call("CliCommand",
                             <<Str("create-user"), <<"drain-">> \o loc.sourceID, loc.newPassword>>),
                        call("GetCurrentOrg", << >>), call("GetCurrentSpace", << >>),
                        call("CliCommand",
                             <<Str("set-space-role"), <<"drain-">> \o loc.sourceID, OrgName,
                               SpaceName, Str("SpaceDeveloper")>>)>>
                 ELSE << >>)
             \o <<call("CliCommand", PushCommand), call("IsSSLDisabled", << >>)>>
             \o [i \in 1..Len(envs) |-> call("CliCommandWithoutTerminalOutput", envs[i])]
             \o <<call("CliCommand", StartCommand)>>
        ELSE << >>

\* the application lookup of the application adapter path
IsSourceAppLookup(e) == ApplicationAdapter /\ e.fn = "GetApp"

\* C3 as stated: the calls on the command executor are a prefix of those of
\* the invocation in which every call succeeds, and a failed call is the
\* last call.
C3_Original ==
    LET calls == ExecutorCalls
    IN  /\ IsPrefix([i \in 1..Len(calls) |-> CallOf(calls[i])], SuccessfulCalls(TRUE))
        /\ \A i \in 1..Len(calls) : calls[i].err.failed => i = Len(calls)

\* C3, amended: the calls on the command executor are a prefix of those of
\* the invocation with the same inputs and the same outcome of the
\* application adapter's application lookup in which every other call
\* succeeds (so no delete, unbind or unset command is ever issued), and a
\* failed call other than that application lookup is the last call.
C3_AbortWithoutRollback ==
    LET calls == ExecutorCalls
        appFound == ~(calls # << >> /\ IsSourceAppLookup(calls[1]) /\ calls[1].err.failed)
    IN  /\ IsPrefix([i \in 1..Len(calls) |-> CallOf(calls[i])], SuccessfulCalls(appFound))
        /\ \A i \in 1..Len(calls) :
              calls[i].err.failed /\ ~IsSourceAppLookup(calls[i]) => i = Len(calls)

\* an environment variable could not be set after a user was created and the
\* application pushed: both are left in place
C3_Witness ==
    /\ pc = "fatal"
    /\ trace # << >>
    /\ IsSetEnv(trace[Len(trace)], "GROUP_NAME")
    /\ trace[Len(trace)].err.failed
    /\ \E i \in 1..Len(trace) : IsCommand(trace[i], "create-user") /\ ~trace[i].err.failed
    /\ \E i \in 1..Len(trace) : IsCommand(trace[i], "push") /\ ~trace[i].err.failed

-----------------------------------------------------------------------------
(* C4 *)

\* what a call is: the platform command, the environment variable, or the
\* function of the collaborator
Label(e) ==
    IF e.fn = "CliCommand" THEN e.argv[1]
    ELSE IF e.fn = "CliCommandWithoutTerminalOutput" THEN e.argv[1] \o e.argv[3]
    ELSE <<e.fn>>

\* the steps of the application adapter in the documented order
DocumentedOrder(appFound, haveUsername) ==
    <<Str("GetApp")>>
    \o (IF appFound THEN << >> ELSE <<Str("GetService")>>)
    \o <<Str("GetCurrentOrg"), Str("GetCurrentSpace"), Str("ApiEndpoint")>>
    \o (IF haveUsername
        THEN <<Str("passwordReader")>>
        ELSE <<Str("create-user"), Str("GetCurrentOrg"), Str("GetCurrentSpace"),
               Str("set-space-role")>>)
    \o <<Str("Download"), Str("push"), Str("IsSSLDisabled"),
         <<"set-env", "SOURCE_ID">>, <<"set-env", "SOURCE_HOST_NAME">>,
         <<"set-env", "UAA_URL">>, <<"set-env", "CLIENT_ID">>,
         <<"set-env", "USERNAME">>, <<"set-env", "PASSWORD">>,
         <<"set-env", "LOG_CACHE_HTTP_ADDR">>, <<"set-env", "SYSLOG_URL">>,
         <<"set-env", "SKIP_CERT_VERIFY">>, <<"set-env", "GROUP_NAME">>,
         <<"set-env", "DRAIN_SCOPE">>,
         Str("start")>>

\* C4: on the application adapter path the calls follow the documented
\* order (source lookups, org, space and endpoint, credentials, download and
\* push <name> -p <dir> -b binary_buildpack -c ./syslog_forwarder --no-start,
\* the certificate query, the eleven set-env from SOURCE_ID to DRAIN_SCOPE,
\* start); no set-env precedes a successful push, start follows eleven
\* successful set-env, and start is the last call of a successful invocation.
C4_ApplicationAdapterOrder ==
    ApplicationAdapter =>
        LET n == Len(trace)
            appFound == ~(trace # << >> /\ trace[1].err.failed)
        IN  /\ IsPrefix([i \in 1..n |-> Label(trace[i])],
                        DocumentedOrder(appFound, opts.Username # << >>))
            /\ \A i \in 1..n :
                  IsCommand(trace[i], "push") =>
                      trace[i].argv = <<Str("push"), serviceName, Str("-p"),
                                        Str("/downloaded/temp/dir"), Str("-b"),
                                        Str("binary_buildpack"), Str("-c"),
                                        Str("./syslog_forwarder"), Str("--no-start")>>
            /\ \A i \in 1..n :
                  IsCommand(trace[i], "set-env") =>
                      \E j \in 1..(i - 1) :
                          IsCommand(trace[j], "push") /\ ~trace[j].err.failed
            /\ \A i \in 1..n :
                  IsCommand(trace[i], "start") =>
                      Cardinality({j \in 1..(i - 1) :
                          IsCommand(trace[j], "set-env") /\ ~trace[j].err.failed}) = 11
            /\ pc = "done" => IsCommand(trace[n], "start") /\ ~trace[n].err.failed

\* a successful invocation on the application adapter path with a user name
C4_Witness ==
    /\ ApplicationAdapter
    /\ pc = "done"
    /\ opts.Username # << >>
    /\ IsCommand(trace[Len(trace)], "start")
    /\ Len(trace) = 20

-----------------------------------------------------------------------------
(* C5 *)

IsCreateUser(e) == IsCommand(e, "create-user")

IsSetSpaceRole(e) == IsCommand(e, "set-space-role")

IsPasswordReader(e) == e.fn = "passwordReader"

IsPush(e) == IsCommand(e, "push")

\* the source id the lookups resolved: the application's when the
\* application lookup succeeded, else the service instance's
ResolvedSourceID == IF trace[1].err.failed THEN ServiceGuid ELSE AppGuid

\* C5: on the application adapter path without a user name the password
\* reader is never invoked; there is at most one create-user and one
\* set-space-role; create-user is  create-user drain-<source-id> <password>
\* with a non-empty password; set-space-role follows a successful
\* create-user and is  set-space-role drain-<source-id> <org> <space>
\* SpaceDeveloper; a push is preceded by both; and USERNAME and PASSWORD are
\* set to that user name and that password.
C5_GeneratedCredentials ==
    ApplicationAdapter /\ opts.Username = << >> =>
        LET creates == Where(trace, IsCreateUser)
            roles == Where(trace, IsSetSpaceRole)
            user == <<"drain-">> \o ResolvedSourceID
        IN  /\ Where(trace, IsPasswordReader) = {}
            /\ Cardinality(creates) <= 1
            /\ Cardinality(roles) <= 1
            /\ \A c \in creates :
                  /\ Len(trace[c].argv) = 3
                  /\ trace[c].argv[2] = user
                  /\ trace[c].argv[3] # << >>
            /\ \A r \in roles :
                  /\ trace[r].argv = <<Str("set-space-role"), user, OrgName, SpaceName,
                                       Str("SpaceDeveloper")>>
                  /\ \E c \in creates : c < r /\ ~trace[c].err.failed
            /\ \A p \in Where(trace, IsPush) :
                  \E c \in creates, r \in roles : c < r /\ r < p /\ ~trace[r].err.failed
            /\ \A i \in 1..Len(trace) :
                  /\ IsSetEnv(trace[i], "USERNAME") => trace[i].argv[4] = user
                  /\ IsSetEnv(trace[i], "PASSWORD") =>
                        \E c \in creates : trace[i].argv[4] = trace[c].argv[3]

\* a successful invocation that created the user
C5_Witness ==
    /\ ApplicationAdapter
    /\ opts.Username = << >>
    /\ pc = "done"
    /\ \E i \in 1..Len(trace) : IsCreateUser(trace[i])
    /\ \E i \in 1..Len(trace) : IsSetEnv(trace[i], "PASSWORD") /\ ~trace[i].err.failed

-----------------------------------------------------------------------------
(* C6 *)

IsDownloadOrPush(e) == e.fn = "Download" \/ IsPush(e)

\* what C6 says of the password reader whatever it returned: invoked at
\* most once, right after the endpoint lookup that follows the org and space
\* lookups, before any download or push, and no user is created
PasswordPromptPlace ==
    LET readers == Where(trace, IsPasswordReader)
    IN  /\ Cardinality(readers) <= 1
        /\ Where(trace, IsCreateUser) = {}
        /\ Where(trace, IsSetSpaceRole) = {}
        /\ \A r \in readers :
              /\ r > 3
              /\ trace[r - 3].fn = "GetCurrentOrg" /\ ~trace[r - 3].err.failed
              /\ trace[r - 2].fn = "GetCurrentSpace" /\ ~trace[r - 2].err.failed
              /\ trace[r - 1].fn = "ApiEndpoint" /\ ~trace[r - 1].err.failed
        /\ \A d \in Where(trace, IsDownloadOrPush) : \E r \in readers : r < d

\* the invocation failed at call r with msg, before any download, push,
\* set-env or start
FailedAt(r, msg) == pc = "fatal" /\ fatalfMessage = msg /\ r = Len(trace)

\* USERNAME is set to the user name passed and PASSWORD to the bytes read
PromptedCredentialsSet ==
    \A i \in 1..Len(trace) :
        /\ IsSetEnv(trace[i], "USERNAME") => trace[i].argv[4] = opts.Username
        /\ IsSetEnv(trace[i], "PASSWORD") => trace[i].argv[4] = loc.bytePassword

\* C6 as stated: with a user name, the reader is invoked once in its place;
\* empty input fails with the blank-password diagnostic, and otherwise the
\* credentials set are the user name and the bytes read.
C6_Original ==
    ApplicationAdapter /\ opts.Username # << >> =>
        /\ PasswordPromptPlace
        /\ \A r \in Where(trace, IsPasswordReader) :
              IF loc.bytePassword = << >>
              THEN FailedAt(r, <<"Password cannot be blank.">>)
              ELSE PromptedCredentialsSet

\* C6, amended: with a user name, the reader is invoked once in its place;
\* when the reader returns an error the invocation fails with that error's
\* message; when it returns empty input and no error the invocation fails
\* with  Password cannot be blank.  ; in both cases nothing follows; and
\* otherwise the credentials set are the user name and the bytes read.
C6_PasswordPrompt ==
    ApplicationAdapter /\ opts.Username # << >> =>
        /\ PasswordPromptPlace
        /\ \A r \in Where(trace, IsPasswordReader) :
              IF trace[r].err.failed
              THEN FailedAt(r, trace[r].err.msg)
              ELSE IF loc.bytePassword = << >>
              THEN FailedAt(r, <<"Password cannot be blank.">>)
              ELSE PromptedCredentialsSet

\* the reader returned empty input and the invocation failed on it
C6_Witness ==
    /\ ApplicationAdapter
    /\ opts.Username # << >>
    /\ trace # << >>
    /\ IsPasswordReader(trace[Len(trace)])
    /\ ~trace[Len(trace)].err.failed
    /\ pc = "fatal"
    /\ fatalfMessage = <<"Password cannot be blank.">>

-----------------------------------------------------------------------------
(* C7 *)

\* C7: on the application adapter path the first call is the application
\* lookup of the name; the service lookup is made only as the second call
\* and only after a failed application lookup; SOURCE_ID is the
\* application's id when the application lookup succeeded and the service
\* instance's otherwise; and when both lookups fail the invocation aborts
\* with  unknown application or service "<name>"  after these two calls.
C7_SourceIdentity ==
    ApplicationAdapter /\ trace # << >> =>
        /\ CallOf(trace[1]) = [fn |-> "GetApp", argv |-> <<args[1]>>]
        /\ \A i \in 2..Len(trace) : trace[i].fn # "GetApp"
        /\ \A i \in 1..Len(trace) :
              trace[i].fn = "GetService" =>
                  i = 2 /\ trace[1].err.failed /\ trace[i].argv = <<args[1]>>
        /\ Len(trace) >= 2 /\ trace[1].err.failed => trace[2].fn = "GetService"
        /\ \A i \in 1..Len(trace) :
              IsSetEnv(trace[i], "SOURCE_ID") =>
                  trace[i].argv[4] = (IF trace[1].err.failed THEN ServiceGuid ELSE AppGuid)
        /\ Len(trace) >= 2 /\ trace[1].err.failed /\ trace[2].err.failed =>
              /\ pc = "fatal"
              /\ fatalfMessage = <<"unknown application or service ", "\"">> \o args[1] \o <<"\"">>
              /\ Len(trace) = 2

\* the name is a service instance's: SOURCE_ID is set to its id
C7_Witness ==
    /\ ApplicationAdapter
    /\ Len(trace) >= 2
    /\ trace[1].err.failed
    /\ \E i \in 1..Len(trace) :
          /\ IsSetEnv(trace[i], "SOURCE_ID")
          /\ trace[i].argv[4] = ServiceGuid
          /\ ~trace[i].err.failed

-----------------------------------------------------------------------------
(* C8 *)

\* e is a command that names the resource
NamesResource(e) ==
    \/ IsCommand(e, "create-user-provided-service")
    \/ IsCommand(e, "bind-service")
    \/ IsCommand(e, "push")
    \/ IsCommand(e, "set-env")
    \/ IsCommand(e, "start")

\* the resource name in e
ResourceNameIn(e) == IF IsCommand(e, "bind-service") THEN e.argv[3] ELSE e.argv[2]

\* C8: every command that names the resource names the same one: the drain
\* name passed when there is one, else one generated cf-drain-<uuid>, which
\* differs from the value GROUP_NAME is set to; a successful invocation has
\* named it in create-user-provided-service and bind-service, or in push,
\* eleven set-env and start.
C8_ResourceNameConsistency ==
    LET naming == Where(trace, NamesResource)
        names == {ResourceNameIn(trace[i]) : i \in naming}
    IN  /\ Cardinality(names) <= 1
        /\ \A n \in names :
              IF opts.DrainName # << >>
              THEN n = opts.DrainName
              ELSE /\ \E r \in RandResults : ~r.failed /\ n = <<"cf-drain-">> \o r.value
                   /\ \A i \in 1..Len(trace) :
                         IsSetEnv(trace[i], "GROUP_NAME") => trace[i].argv[4] # n
        /\ pc = "done" /\ ServiceAdapter =>
              {trace[i].argv[1] : i \in naming}
                  = {Str("create-user-provided-service"), Str("bind-service")}
        /\ pc = "done" /\ ApplicationAdapter =>
              /\ Cardinality(naming) = 13
              /\ {trace[i].argv[1] : i \in naming} = {Str("push"), Str("set-env"), Str("start")}

\* a successful invocation under a generated name, where the group name is
\* the same random value as the one in the name
C8_Witness ==
    /\ ApplicationAdapter
    /\ opts.DrainName = << >>
    /\ pc = "done"
    /\ \E i \in 1..Len(trace) :
          /\ IsSetEnv(trace[i], "GROUP_NAME")
          /\ trace[i].argv[2] = <<"cf-drain-">> \o trace[i].argv[4]

-----------------------------------------------------------------------------
(* C9 *)

\* the invocation has two positional arguments, a URL that parses, and no
\* flag error
ArgumentsParse == ~flagErr.failed /\ Len(args) = 2 /\ ~ParseFails(args[2])

\* C9: with two positional arguments and a URL that parses, a drain type
\* other than logs, metrics and all ends the invocation with
\* Invalid type: <value>  and without a call on any collaborator.
C9_InvalidDrainType ==
    /\ ArgumentsParse
    /\ opts.DrainType \notin {<< >>, <<"logs">>, <<"metrics">>, <<"all">>}
    /\ pc # "CreateDrain"
    => /\ pc = "fatal"
       /\ fatalfMessage = <<"Invalid type: ">> \o opts.DrainType
       /\ trace = << >>

\* the invocation with --type garbage has failed
C9_Witness ==
    /\ ArgumentsParse
    /\ opts.DrainType = <<"garbage">>
    /\ pc = "fatal"
    /\ fatalfMessage = <<"Invalid type: ", "garbage">>

-----------------------------------------------------------------------------
(* C10 *)

\* e hands the drain URL to the platform
CarriesURL(e) == IsCommand(e, "create-user-provided-service") \/ IsSetEnv(e, "SYSLOG_URL")

\* the drain URLs handed to the platform
HandedURLs == {trace[i].argv[4] : i \in Where(trace, CarriesURL)}

\* the query parameters of a URL, as a reader of the URL decodes them
ParametersOf(raw) == ParsePairs(Parse(raw).RawQuery)

KeysOf(pairs) == {pairs[i].key : i \in 1..Len(pairs)}

\* C10 as stated: with a drain type v, the URL handed over has drain-type=v
\* exactly once and every parameter of the original URL with its value; with
\* no drain type its query is the original one.
C10_Original ==
    \A h \in HandedURLs :
        LET orig == ParametersOf(args[2])
            res == ParametersOf(h)
            v == opts.DrainType
        IN  IF v # << >>
            THEN /\ Cardinality({i \in 1..Len(res) :
                        res[i] = [key |-> <<"drain-type">>, value |-> v]}) = 1
                 /\ \A i \in 1..Len(orig) : \E j \in 1..Len(res) : res[j] = orig[i]
            ELSE Parse(h).RawQuery = Parse(args[2]).RawQuery

\* C10, amended: with a drain type v, the URL handed over has exactly one
\* drain-type parameter, with value v (the values drain-type had in the
\* original URL are replaced), and under every other key exactly the
\* values, in order, of the well-formed parameters of the original URL; with
\* no drain type its query is the original one.
C10_DrainTypeAnnotation ==
    \A h \in HandedURLs :
        LET orig == ParametersOf(args[2])
            res == ParametersOf(h)
            v == opts.DrainType
        IN  IF v # << >>
            THEN /\ ValuesOf(res, <<"drain-type">>) = <<v>>
                 /\ \A k \in (KeysOf(orig) \cup KeysOf(res)) \ {<<"drain-type">>} :
                       ValuesOf(res, k) = ValuesOf(orig, k)
            ELSE Parse(h).RawQuery = Parse(args[2]).RawQuery

\* a URL that named a drain type and another parameter has been handed over
\* with the drain type of the invocation
C10_Witness ==
    /\ opts.DrainType = <<"logs">>
    /\ args[2] = <<"syslog://a.com", "?", "drain-type", "&", "x">>
    /\ \E i \in 1..Len(trace) :
          /\ IsSetEnv(trace[i], "SYSLOG_URL")
          /\ trace[i].argv[4] =
                <<"syslog://a.com", "?", "drain-type", "=", "logs", "&", "x", "=">>

-----------------------------------------------------------------------------
(* C11 *)

\* the checks of CreateDrain that precede the switch on the adapter type pass
ChecksBeforeAdapterPass ==
    /\ ArgumentsParse
    /\ opts.DrainType \in {<< >>, <<"logs">>, <<"metrics">>, <<"all">>}

\* e is a call of the service adapter
IsServiceAdapterCall(e) ==
    \/ e.fn = "GetApp"
    \/ IsCommand(e, "create-user-provided-service")
    \/ IsCommand(e, "bind-service")

\* C11: with an adapter type other than service and application the
\* invocation aborts without a call on any collaborator (no lookup, command,
\* download or password prompt) and without a resource name generated, and
\* when the earlier checks pass its diagnostic is
\*   unsupported adapter type, must be 'service' or 'application'  ;
\* without --adapter-type the adapter type is service: only the calls of
\* the service adapter are made, and a successful invocation has bound the
\* service.
C11_UnsupportedAdapterType ==
    /\ opts.AdapterType \notin {<<"service">>, <<"application">>} /\ pc # "CreateDrain" =>
          /\ pc = "fatal"
          /\ trace = << >>
          /\ serviceName = << >>
          /\ ChecksBeforeAdapterPass =>
                fatalfMessage =
                    <<"unsupported adapter type, must be 'service' or 'application'">>
    /\ adapterTypeFlag = << >> =>
          /\ opts.AdapterType = <<"service">>
          /\ \A i \in 1..Len(trace) : IsServiceAdapterCall(trace[i])
          /\ pc = "done" => IsCommand(trace[Len(trace)], "bind-service")
          /\ ChecksBeforeAdapterPass /\ pc \notin {"CreateDrain", "exit"} => serviceName # << >>

\* --adapter-type foo without --drain-name: the invocation has aborted where
\* a name would have been generated
C11_Witness ==
    /\ opts.AdapterType = <<"foo">>
    /\ opts.DrainName = << >>
    /\ ChecksBeforeAdapterPass
    /\ pc = "fatal"
    /\ fatalfMessage = <<"unsupported adapter type, must be 'service' or 'application'">>

-----------------------------------------------------------------------------
(* C12 *)

\* the environment variables of the forwarder
EnvNames ==
    {"SOURCE_ID", "SOURCE_HOST_NAME", "UAA_URL", "LOG_CACHE_HTTP_ADDR", "CLIENT_ID",
     "SYSLOG_URL", "SKIP_CERT_VERIFY", "DRAIN_SCOPE", "USERNAME", "PASSWORD", "GROUP_NAME"}

IsAnySetEnv(e) == IsCommand(e, "set-env")

\* the values var has been set to, one for each set-env of var
ValuesSetFor(var) ==
    LET at == {i \in 1..Len(trace) : IsSetEnv(trace[i], var)}
    IN  [i \in at |-> trace[i].argv[4]]

\* v is endpoint with its first "api." replaced by prefix, and endpoint
\* itself when it has no "api."
DerivedFrom(v, endpoint, prefix) ==
    LET apis == {i \in 1..Len(endpoint) : endpoint[i] = "api."}
    IN  /\ Len(v) = Len(endpoint)
        /\ \A i \in 1..Len(endpoint) :
              v[i] = (IF i \in apis /\ \A j \in apis : i <= j THEN prefix ELSE endpoint[i])
        /\ endpoint # << >> /\ Head(endpoint) = "api." => v = <<prefix>> \o Tail(endpoint)

\* v is the drain URL passed, with the drain type when there is one
IsDrainURL(v) ==
    IF opts.DrainType = << >>
    THEN v = args[2]
    ELSE /\ Parse(v).base = Parse(args[2]).base
         /\ ValuesOf(ParametersOf(v), <<"drain-type">>) = <<opts.DrainType>>

\* what var is to be set to
ExpectedValue(var, v) ==
    CASE var = "SOURCE_ID" -> v = ResolvedSourceID
      [] var = "SOURCE_HOST_NAME" ->
            v = <<"org-name", ".", "space-name", ".">> \o args[1]
      [] var = "UAA_URL" -> DerivedFrom(v, apiEndpoint, "uaa.")
      [] var = "LOG_CACHE_HTTP_ADDR" -> DerivedFrom(v, apiEndpoint, "log-cache.")
      [] var = "CLIENT_ID" -> v = <<"cf">>
      [] var = "SYSLOG_URL" -> IsDrainURL(v)
      [] var = "SKIP_CERT_VERIFY" ->
            v = (IF loc.skipCertVerify THEN <<"true">> ELSE <<"false">>)
      [] var = "DRAIN_SCOPE" -> v = <<"single">>
      [] var = "USERNAME" ->
            v = (IF opts.Username # << >> THEN opts.Username
                 ELSE <<"drain-">> \o ResolvedSourceID)
      [] var = "PASSWORD" -> v # << >>
      [] var = "GROUP_NAME" -> \E r \in RandResults : ~r.failed /\ v = r.value

\* C12: a successful invocation on the application adapter path has made
\* eleven set-env, all successful, one for each of the eleven variables, with
\* SOURCE_ID the resolved source id, SOURCE_HOST_NAME <org>.<space>.<target>,
\* UAA_URL and LOG_CACHE_HTTP_ADDR the API endpoint with its first "api."
\* replaced by "uaa." and "log-cache." (uaa.<rest> and log-cache.<rest> for
\* api.<rest>), CLIENT_ID cf, SYSLOG_URL the drain URL with the drain type,
\* SKIP_CERT_VERIFY true or false as IsSSLDisabled returned, DRAIN_SCOPE
\* single, USERNAME and PASSWORD the credentials, GROUP_NAME a generated value.
C12_EnvironmentVariables ==
    ApplicationAdapter /\ pc = "done" =>
        /\ Cardinality(Where(trace, IsAnySetEnv)) = 11
        /\ \A i \in Where(trace, IsAnySetEnv) :
              /\ ~trace[i].err.failed
              /\ Len(trace[i].argv) = 4
              /\ \E var \in EnvNames : trace[i].argv[3] = <<var>>
        /\ \A var \in EnvNames :
              LET vs == ValuesSetFor(var)
              IN  /\ Cardinality(DOMAIN vs) = 1
                  /\ \A i \in DOMAIN vs : ExpectedValue(var, vs[i])

\* a successful invocation in a session that has certificate verification
\* disabled and an endpoint with "api." twice
C12_Witness ==
    /\ ApplicationAdapter
    /\ pc = "done"
    /\ apiEndpoint = <<"api.", "api.", "example.com">>
    /\ loc.skipCertVerify
    /\ \E i \in 1..Len(trace) :
          IsSetEnv(trace[i], "UAA_URL") /\ trace[i].argv[4] = <<"uaa.", "api.", "example.com">>
    /\ \E i \in 1..Len(trace) :
          IsSetEnv(trace[i], "SKIP_CERT_VERIFY") /\ trace[i].argv[4] = <<"true">>

-----------------------------------------------------------------------------
(* C13 *)

\* the checks of CreateDrain, each by what it rejects
FlagsFail == flagErr.failed

CountFails == Len(args) # 2

URLFails == Len(args) >= 2 /\ ParseFails(args[2])

TypeFails == opts.DrainType \notin {<< >>, <<"logs">>, <<"metrics">>, <<"all">>}

AdapterFails == opts.AdapterType \notin {<<"service">>, <<"application">>}

\* msg is the diagnostic of the first of the four checks that fails
IsFirstOfFour(msg) ==
    IF CountFails
    THEN msg = <<"Invalid arguments, expected 2, got ", ToString(Len(args)), ".">>
    ELSE IF URLFails
    THEN Head(msg) = "Invalid syslog drain URL: " /\ Len(msg) > 1
    ELSE IF TypeFails
    THEN msg = <<"Invalid type: ">> \o opts.DrainType
    ELSE msg = <<"unsupported adapter type, must be 'service' or 'application'">>

\* the invocation has aborted without a call on the command executor, the
\* session accessors, the downloader or the password reader
AbortedBeforeSideEffects == pc = "fatal" /\ trace = << >> /\ serviceName = << >>

\* C13 as stated: once CreateDrain has run, an invocation that fails one of
\* argument count, URL parse, drain type and adapter type has aborted with
\* the diagnostic of the first of them that fails, without any call.
C13_Original ==
    pc # "CreateDrain" /\ (CountFails \/ URLFails \/ TypeFails \/ AdapterFails) =>
        /\ AbortedBeforeSideEffects
        /\ IsFirstOfFour(fatalfMessage)

\* C13, amended: the order of the checks is flag parsing, argument count,
\* URL parse, drain type, adapter type; an invocation that fails one of them
\* has aborted with the diagnostic of the first that fails (the parser's
\* error for flag parsing), without any call; and a call is made, or a name
\* generated, only when all five pass.
C13_ValidationPrecedence ==
    /\ pc # "CreateDrain"
       /\ (FlagsFail \/ CountFails \/ URLFails \/ TypeFails \/ AdapterFails) =>
          /\ AbortedBeforeSideEffects
          /\ IF FlagsFail THEN fatalfMessage = flagErr.msg
             ELSE IsFirstOfFour(fatalfMessage)
    /\ trace # << >> \/ serviceName # << >> \/ pc = "exit" =>
          ~(FlagsFail \/ CountFails \/ URLFails \/ TypeFails \/ AdapterFails)

\* a URL without a scheme, --type garbage and --adapter-type foo: the
\* diagnostic is the one of the URL
C13_Witness ==
    /\ ~FlagsFail /\ ~CountFails
    /\ URLFails /\ TypeFails /\ AdapterFails
    /\ pc = "fatal"
    /\ Head(fatalfMessage) = "Invalid syslog drain URL: "
    /\ trace = << >>

====
